---- MODULE Spec2Model ----
(***************************************************************************)
(* The shared stage timer: one row of table stage_timer (id = 1) in the    *)
(* store, operator consoles (AdminPage) that mutate it from a cached copy, *)
(* and display screens (DisplayPage) that project the remaining seconds.   *)
(*                                                                         *)
(* Times are milliseconds.  The reference clock is refNow; a viewer's      *)
(* Date.now() is refNow + skew[v].  A nullable value is a sequence of      *)
(* length 0 (null) or 1; an ISO-8601 timestamp string is the pair          *)
(* <<seconds, milliseconds>> it spells, and the null timestamp is <<>>.    *)
(***************************************************************************)
EXTENDS Integers, Sequences, FiniteSets, TLC

VARIABLES
    refNow,       \* the reference clock (the server's Date), ms
    store,        \* table stage_timer: <<>> or <<row>>
    net,          \* update requests sent by consoles, not yet applied
    notif,        \* per viewer: change payloads not yet delivered (FIFO)
    skew,         \* per viewer: local clock minus reference clock, ms
    timer,        \* per viewer: useState timer, <<>> or <<row>>
    loading,      \* per console: useState loading
    error,        \* per console: useState error, <<>> or <<message>>
    fetchPc,      \* per viewer: where its fetchTimer / loadTimer call stands
    fetchResp,    \* per viewer: the store's answer in flight to it
    currentTime,  \* per console: useState currentTime
    mounted,      \* per viewer: the page is open (its effects are installed)
    offsetMs,     \* per display: useState offsetMs
    remaining,    \* per display: useState remaining
    offsetPc,     \* per display: where its computeOffset call stands
    interval,     \* per display: its setInterval timers and intervalRef
    nan,          \* per display: which of offsetMs, remaining hold NaN
    clicks,       \* update requests the consoles may still issue
    last,         \* the most recent write the store applied (history)
    prev          \* the write the store applied before that one (history)

vars == <<refNow, store, net, notif, skew, timer, loading, error, fetchPc,
          fetchResp, currentTime, mounted, offsetMs, remaining, offsetPc,
          interval, nan, clicks, last, prev>>

\* The state of the display screens.
dvars == <<offsetMs, remaining, offsetPc, interval, nan>>

----------------------------------------------------------------------------
(* Bounds of the model *)

\* The reference clock runs from Epoch0 to Epoch0 + MaxTicks * TickMs.
MaxTicks == 2
\* Update requests the consoles issue in one behaviour.
MaxClicks == 3
\* The same, when a display screen is watching.
MaxViewClicks == 2
\* Update requests in flight at once.
MaxInFlight == 1
\* Undelivered change notifications per viewer.
MaxNotif == 1

\* The reference instant at which the pages open, ms.
Epoch0 == 10000
\* The step of the reference clock, ms.
TickMs == 500
\* The skews a viewer's local clock can have, ms.
Skews == {0, 1500}

Consoles == {"c1", "c2"}
Displays == {"d1"}
Viewers == Consoles \cup Displays

\* What an operator can have in the minutes field when pressing Update Duration.
MinutesInputs ==
    { <<>>, <<"x">>, <<"-", "1">>, <<"0">>, <<"5">> }

----------------------------------------------------------------------------
(* Values *)

None == <<>>
Some(x) == <<x>>

Max(a, b) == IF a >= b THEN a ELSE b

\* Date.prototype.toISOString: the instant spelled to the millisecond.
toISOString(ms) == <<ms \div 1000, ms % 1000>>

\* new Date(iso).getTime()
getTime(iso) == iso[1] * 1000 + iso[2]

\* Date.now() of viewer v.
DateNow(v) == refNow + skew[v]

DigitChars == <<"0", "1", "2", "3", "4", "5", "6", "7", "8", "9">>
IsDigit(ch) == \E i \in 1..10 : DigitChars[i] = ch
DigitValue(ch) == (CHOOSE i \in 1..10 : DigitChars[i] = ch) - 1

RECURSIVE DigitPrefix(_)
DigitPrefix(s) ==
    IF s = <<>> \/ ~IsDigit(Head(s)) THEN <<>>
    ELSE <<Head(s)>> \o DigitPrefix(Tail(s))

RECURSIVE DecimalValue(_)
DecimalValue(ds) ==
    IF ds = <<>> THEN 0
    ELSE DecimalValue(SubSeq(ds, 1, Len(ds) - 1)) * 10 + DigitValue(ds[Len(ds)])

RECURSIVE TrimLeft(_)
TrimLeft(s) == IF s # <<>> /\ Head(s) = " " THEN TrimLeft(Tail(s)) ELSE s

\* parseInt(string): leading white space skipped, an optional sign, then the
\* longest run of digits; NaN (None) when there is no digit.
parseInt(s) ==
    LET t == TrimLeft(s)
        neg == t # <<>> /\ Head(t) = "-"
        body == IF t # <<>> /\ Head(t) \in {"-", "+"} THEN Tail(t) ELSE t
        ds == DigitPrefix(body)
    IN  IF ds = <<>> THEN None
        ELSE Some(IF neg THEN 0 - DecimalValue(ds) ELSE DecimalValue(ds))

isNaN(n) == n = None

\* The record fetchTimer inserts when the table is empty.
DefaultRow ==
    [id |-> 1, duration |-> 300, start_time |-> None, status |-> "stopped"]

\* update(fields): the row with the named columns replaced, the others kept.
Merge(row, fields) ==
    [f \in DOMAIN row |-> IF f \in DOMAIN fields THEN fields[f] ELSE row[f]]

\* No answer of the store is in flight.
NoResp == [code |-> "", data |-> None]

NoWrite ==
    [kind |-> "none", pre |-> None, input |-> <<>>, clickAt |-> 0,
     others |-> 0]

----------------------------------------------------------------------------
(* The store *)

\* postgres_changes: the consoles listen to every event, the displays to UPDATE.
Listeners(event) ==
    {v \in Viewers : mounted[v] /\ (event = "UPDATE" \/ v \in Consoles)}

Broadcast(event, row) ==
    [v \in Viewers |->
        IF v \in Listeners(event) THEN Append(notif[v], row) ELSE notif[v]]

Room(event) == \A v \in Listeners(event) : Len(notif[v]) < MaxNotif

\* .update(fields).eq("id", id): one statement, all fields together.
ApplyUpdate(i) ==
    /\ i \in 1..Len(net)
    /\ LET req == net[i]
           rest == SubSeq(net, 1, i - 1) \o SubSeq(net, i + 1, Len(net))
       IN  IF store # None /\ store[1].id = req.id
           THEN /\ Room("UPDATE")
                /\ store' = Some(Merge(store[1], req.fields))
                /\ notif' = Broadcast("UPDATE", Merge(store[1], req.fields))
                /\ last' = [kind |-> req.kind, pre |-> store,
                            input |-> req.input, clickAt |-> req.clickAt,
                            others |-> Len(net) - 1]
                /\ prev' = last
                /\ net' = rest
           ELSE /\ net' = rest
                /\ UNCHANGED <<store, notif, last, prev>>
    /\ UNCHANGED <<refNow, skew, timer, loading, error, fetchPc, fetchResp,
                   currentTime, mounted, clicks, dvars>>

\* .select("*").eq("id", 1).single() reaches the store: the row, or PGRST116.
ServeSelect(v) ==
    /\ fetchPc[v] = "select"
    /\ fetchPc' = [fetchPc EXCEPT ![v] = "selected"]
    /\ fetchResp' = [fetchResp EXCEPT ![v] =
            IF store = None THEN [code |-> "PGRST116", data |-> None]
            ELSE [code |-> "", data |-> store]]
    /\ UNCHANGED <<refNow, store, net, notif, skew, timer, loading, error,
                   currentTime, mounted, clicks, last, prev, dvars>>

\* .insert({id: 1, ...}).select().single() reaches the store: id is the
\* primary key, so a second insert fails.
ServeInsert(c) ==
    /\ fetchPc[c] = "insert"
    /\ fetchPc' = [fetchPc EXCEPT ![c] = "inserted"]
    /\ IF store = None
       THEN /\ Room("INSERT")
            /\ store' = Some(DefaultRow)
            /\ notif' = Broadcast("INSERT", DefaultRow)
            /\ fetchResp' = [fetchResp EXCEPT ![c] =
                    [code |-> "", data |-> Some(DefaultRow)]]
            /\ last' = [NoWrite EXCEPT !.kind = "insert", !.clickAt = refNow]
            /\ prev' = last
       ELSE /\ fetchResp' = [fetchResp EXCEPT ![c] =
                    [code |-> "23505", data |-> None]]
            /\ UNCHANGED <<store, notif, last, prev>>
    /\ UNCHANGED <<refNow, net, skew, timer, loading, error, currentTime,
                   mounted, clicks, dvars>>

----------------------------------------------------------------------------
(* The operator console (AdminPage) *)

\* fetchTimer, after the select: the row is cached, or the default row is
\* inserted when the store answers PGRST116; finally loading is cleared.
fetchTimerSelected(c) ==
    /\ mounted[c]
    /\ fetchPc[c] = "selected"
    /\ LET r == fetchResp[c]
       IN  IF r.code = "PGRST116"
           THEN /\ fetchPc' = [fetchPc EXCEPT ![c] = "insert"]
                /\ UNCHANGED <<timer, error, loading>>
           ELSE /\ fetchPc' = [fetchPc EXCEPT ![c] = "idle"]
                /\ timer' = [timer EXCEPT ![c] =
                        IF r.data # None THEN r.data ELSE timer[c]]
                /\ loading' = [loading EXCEPT ![c] = FALSE]
                /\ UNCHANGED error
    /\ fetchResp' = [fetchResp EXCEPT ![c] = NoResp]
    /\ UNCHANGED <<refNow, store, net, notif, skew, currentTime, mounted,
                   clicks, last, prev, dvars>>

\* fetchTimer, after the insert.
fetchTimerInserted(c) ==
    /\ mounted[c]
    /\ fetchPc[c] = "inserted"
    /\ LET r == fetchResp[c]
       IN  IF r.code # ""
           THEN /\ error' = [error EXCEPT ![c] =
                        Some("Failed to initialize timer")]
                /\ UNCHANGED timer
           ELSE /\ timer' = [timer EXCEPT ![c] =
                        IF r.data # None THEN r.data ELSE timer[c]]
                /\ UNCHANGED error
    /\ fetchPc' = [fetchPc EXCEPT ![c] = "idle"]
    /\ loading' = [loading EXCEPT ![c] = FALSE]
    /\ fetchResp' = [fetchResp EXCEPT ![c] = NoResp]
    /\ UNCHANGED <<refNow, store, net, notif, skew, currentTime, mounted,
                   clicks, last, prev, dvars>>

\* The Retry button of the error screen.
Retry(c) ==
    /\ mounted[c]
    /\ ~loading[c]
    /\ error[c] # None
    /\ fetchPc[c] = "idle"
    /\ error' = [error EXCEPT ![c] = None]
    /\ loading' = [loading EXCEPT ![c] = TRUE]
    /\ fetchPc' = [fetchPc EXCEPT ![c] = "select"]
    /\ UNCHANGED <<refNow, store, net, notif, skew, timer, fetchResp,
                   currentTime, mounted, clicks, last, prev, dvars>>

\* The postgres_changes callback of a viewer: setTimer(payload.new).
OnChange(v) ==
    /\ mounted[v]
    /\ notif[v] # <<>>
    /\ timer' = [timer EXCEPT ![v] = Some(Head(notif[v]))]
    /\ notif' = [notif EXCEPT ![v] = Tail(notif[v])]
    /\ UNCHANGED <<refNow, store, net, skew, loading, error, fetchPc,
                   fetchResp, currentTime, mounted, clicks, last, prev,
                   dvars>>

\* The control panel is rendered: not loading, no error, a timer is cached.
Panel(c) == mounted[c] /\ ~loading[c] /\ error[c] = None /\ timer[c] # None

\* supabase.from("stage_timer").update(fields).eq("id", timer.id) is sent,
\* with at most cap requests in flight.
SendWithin(cap, c, kind, fields, input) ==
    /\ clicks > 0
    /\ Len(net) < cap
    /\ net' = Append(net, [kind |-> kind, by |-> c, id |-> timer[c][1].id,
                           fields |-> fields, input |-> input,
                           clickAt |-> refNow])
    /\ clicks' = clicks - 1

Send(c, kind, fields, input) == SendWithin(MaxInFlight, c, kind, fields, input)

startUpdate(t, now) == [status |-> "running", start_time |-> toISOString(now)]

pauseUpdate(t, now) ==
    LET startMs == getTime(t.start_time)
        elapsed == (now - startMs) \div 1000
        remainingSec == Max(0, t.duration - elapsed)
    IN  [status |-> "paused", start_time |-> None, duration |-> remainingSec]

\* Variants of resetUpdate: one forgets start_time, one writes the cached
\* duration back.
resetUpdateStatusOnly(t) == [status |-> "stopped"]
resetUpdateFromCache(t) ==
    [status |-> "stopped", start_time |-> None, duration |-> t.duration]

resetUpdate(t) == [status |-> "stopped", start_time |-> None]

\* Variants of durationUpdate: retargeting also stops the timer; the minutes
\* are written as they are.
durationUpdateStops(mins) ==
    [duration |-> mins * 60, status |-> "stopped", start_time |-> None]

durationUpdateMinutes(mins) == [duration |-> mins]

durationUpdate(mins) == [duration |-> mins * 60]

\* The Start button is disabled on the cached record.
StartDisabled(t) == t.duration <= 0 \/ t.status = "running"

startTimer(c) ==
    /\ Panel(c)
    /\ ~StartDisabled(timer[c][1])
    /\ IF timer[c][1].duration <= 0
       THEN UNCHANGED <<net, clicks>>
       ELSE Send(c, "start", startUpdate(timer[c][1], DateNow(c)), <<>>)
    /\ UNCHANGED <<refNow, store, notif, skew, timer, loading, error, fetchPc,
                   fetchResp, currentTime, mounted, last, prev, dvars>>

pauseTimer(c) ==
    /\ Panel(c)
    /\ IF timer[c][1].start_time = None
       THEN UNCHANGED <<net, clicks>>
       ELSE Send(c, "pause", pauseUpdate(timer[c][1], DateNow(c)), <<>>)
    /\ UNCHANGED <<refNow, store, notif, skew, timer, loading, error, fetchPc,
                   fetchResp, currentTime, mounted, last, prev, dvars>>

resetTimer(c) ==
    /\ Panel(c)
    /\ Send(c, "reset", resetUpdate(timer[c][1]), <<>>)
    /\ UNCHANGED <<refNow, store, notif, skew, timer, loading, error, fetchPc,
                   fetchResp, currentTime, mounted, last, prev, dvars>>

\* Update Duration with minutesInput = input; the field is cleared afterwards.
updateDurationWithin(cap, c, input) ==
    /\ Panel(c)
    /\ LET mins == parseInt(input)
       IN  IF isNaN(mins)
           THEN UNCHANGED <<net, clicks>>
           ELSE SendWithin(cap, c, "setDuration", durationUpdate(mins[1]),
                           input)
    /\ UNCHANGED <<refNow, store, notif, skew, timer, loading, error, fetchPc,
                   fetchResp, currentTime, mounted, last, prev, dvars>>

updateDuration(c, input) == updateDurationWithin(MaxInFlight, c, input)

\* The 200 ms interval of the console: setCurrentTime(Date.now()).
SampleTime(c) ==
    /\ mounted[c]
    /\ currentTime' = [currentTime EXCEPT ![c] = DateNow(c)]
    /\ UNCHANGED <<refNow, store, net, notif, skew, timer, loading, error,
                   fetchPc, fetchResp, mounted, clicks, last, prev, dvars>>

\* getRemainingTime of the console, from its cached timer t and currentTime ct.
getRemainingTime(t, ct) ==
    IF t = None THEN 0
    ELSE IF t[1].status # "running" \/ t[1].start_time = None
         THEN t[1].duration
         ELSE LET startMs == getTime(t[1].start_time)
                  elapsed == (ct - startMs) \div 1000
              IN  Max(0, t[1].duration - elapsed)

----------------------------------------------------------------------------
(* The display screen (DisplayPage) *)

\* Variant of computeRemaining: the time elapsed is added to the duration.
computeRemainingAdds(t, offset, now) ==
    IF t = None THEN 0
    ELSE IF t[1].status = "running" /\ t[1].start_time # None
         THEN LET start == getTime(t[1].start_time)
                  serverNow == now + offset
                  elapsed == (serverNow - start) \div 1000
              IN  Max(0, t[1].duration + elapsed)
         ELSE Max(0, t[1].duration)

\* computeRemaining of the display, from its cached timer t, its offsetMs and
\* its Date.now().
computeRemaining(t, offset, now) ==
    IF t = None THEN 0
    ELSE IF t[1].status = "running" /\ t[1].start_time # None
         THEN LET start == getTime(t[1].start_time)
                  serverNow == now + offset
                  elapsed == (serverNow - start) \div 1000
              IN  Max(0, t[1].duration - elapsed)
         ELSE Max(0, t[1].duration)

\* Variant of setState: the update is applied to a page that is closed too.
setStateAlways(v, cur, new) == new

\* A state setter of a page (useState): an update of a page that has been
\* unmounted is discarded.
setState(v, cur, new) == IF mounted[v] THEN new ELSE cur

\* The timers of a display: live holds, oldest first, what each interval that
\* is running closed over (the timer and offsetMs of the render that
\* installed it); ref tells whether intervalRef.current, the interval
\* installed last, is one of them.
NoInterval == [live |-> <<>>, ref |-> FALSE]

\* What computeRemaining closes over in a render.
Closure(t, off, offNaN) == [timer |-> t, offsetMs |-> off, offsetNaN |-> offNaN]

\* Variant of clearInterval: the interval is left running.
clearIntervalKeeps(iv) == iv

\* clearInterval(intervalRef.current)
clearInterval(iv) ==
    IF iv.ref
    THEN [live |-> SubSeq(iv.live, 1, Len(iv.live) - 1), ref |-> FALSE]
    ELSE iv

\* intervalRef.current = setInterval(..., 200), closing over cl.
setInterval(iv, cl) == [live |-> Append(iv.live, cl), ref |-> TRUE]

\* The cleanup the effect on [timer, offsetMs] returned when it ran with
\* timer t: none when it returned early.
effectCleanup(iv, t) == IF t # None THEN clearInterval(iv) ELSE iv

\* The effect on [timer, offsetMs] runs again, timer changing from before to
\* t: the cleanup of the previous run, then the body, which closes over cl.
projectionEffect(iv, before, t, cl) ==
    LET cleaned == effectCleanup(iv, before)
    IN  IF t = None THEN cleaned ELSE setInterval(clearInterval(cleaned), cl)

\* What the body of the effect sets remaining to: without a timer it returns
\* early.
Projected(d, t, offset) ==
    IF t = None THEN remaining[d] ELSE computeRemaining(t, offset, DateNow(d))

\* offsetMs of display d holds NaN.
OffsetNaN(d) == "offsetMs" \in nan[d]

\* computeRemaining returns NaN: Math.max(0, duration - NaN), when the timer
\* runs and offsetMs is NaN.
projectsNaN(t, offNaN) ==
    /\ offNaN
    /\ t # None
    /\ t[1].status = "running"
    /\ t[1].start_time # None

\* The cells of a display that hold NaN once remaining has been recomputed.
NaNCells(t, offNaN) ==
    (IF offNaN THEN {"offsetMs"} ELSE {})
        \cup (IF projectsNaN(t, offNaN) THEN {"remaining"} ELSE {})

\* The render after a state update of display d, its timer now t and its
\* offsetMs now off (or NaN): the effect runs when one of the two was
\* replaced.  A cell that holds NaN keeps the number it had.
Rendered(d, changed, t, off, offNaN) ==
    IF mounted[d] /\ changed
    THEN /\ remaining' = [remaining EXCEPT ![d] =
                IF projectsNaN(t, offNaN) THEN remaining[d]
                ELSE Projected(d, t, off)]
         /\ interval' = [interval EXCEPT ![d] =
                projectionEffect(interval[d], timer[d], t,
                                 Closure(t, off, offNaN))]
         /\ nan' = [nan EXCEPT ![d] =
                IF t = None THEN (nan[d] \ {"offsetMs"})
                                    \cup (NaNCells(t, offNaN) \ {"remaining"})
                ELSE NaNCells(t, offNaN)]
    ELSE UNCHANGED <<remaining, interval, nan>>

\* loadTimer, after the select: if (data) setTimer(data).
loadTimerSelected(d) ==
    /\ fetchPc[d] = "selected"
    /\ LET data == fetchResp[d].data
           t == IF data # None THEN setState(d, timer[d], data) ELSE timer[d]
       IN  /\ timer' = [timer EXCEPT ![d] = t]
           /\ Rendered(d, data # None, t, offsetMs[d], OffsetNaN(d))
    /\ fetchPc' = [fetchPc EXCEPT ![d] = "idle"]
    /\ fetchResp' = [fetchResp EXCEPT ![d] = NoResp]
    /\ UNCHANGED <<refNow, store, net, notif, skew, loading, error,
                   currentTime, mounted, offsetMs, offsetPc, clicks, last,
                   prev>>

\* The postgres_changes callback of the display: setTimer(payload.new).
OnChangeDisplay(d) ==
    /\ mounted[d]
    /\ notif[d] # <<>>
    /\ LET t == setState(d, timer[d], Some(Head(notif[d])))
       IN  /\ timer' = [timer EXCEPT ![d] = t]
           /\ Rendered(d, TRUE, t, offsetMs[d], OffsetNaN(d))
    /\ notif' = [notif EXCEPT ![d] = Tail(notif[d])]
    /\ UNCHANGED <<refNow, store, net, skew, loading, error, fetchPc,
                   fetchResp, currentTime, mounted, offsetMs, offsetPc, clicks,
                   last, prev>>

NoProbe == [pc |-> "idle", t0 |-> 0, serverMs |-> 0]

\* GET /api/time answers the probe with now_ms of the reference clock.
ServeTime(d) ==
    /\ offsetPc[d].pc = "sent"
    /\ offsetPc' = [offsetPc EXCEPT ![d] =
            [pc |-> "served", t0 |-> offsetPc[d].t0, serverMs |-> refNow]]
    /\ UNCHANGED <<refNow, store, net, notif, skew, timer, loading, error,
                   fetchPc, fetchResp, currentTime, mounted, offsetMs,
                   remaining, interval, nan, clicks, last, prev>>

\* The request is answered, but not by a body with a number now_ms.
ServeTimeUnusable(d) ==
    /\ offsetPc[d].pc = "sent"
    /\ offsetPc' = [offsetPc EXCEPT ![d] =
            [pc |-> "unusable", t0 |-> offsetPc[d].t0, serverMs |-> 0]]
    /\ UNCHANGED <<refNow, store, net, notif, skew, timer, loading, error,
                   fetchPc, fetchResp, currentTime, mounted, offsetMs,
                   remaining, interval, nan, clicks, last, prev>>

\* fetch("/api/time") rejects: computeOffset throws at its await and sets
\* nothing.
computeOffsetRejected(d) ==
    /\ offsetPc[d].pc = "sent"
    /\ offsetPc' = [offsetPc EXCEPT ![d] = [NoProbe EXCEPT !.pc = "failed"]]
    /\ UNCHANGED <<refNow, store, net, notif, skew, timer, loading, error,
                   fetchPc, fetchResp, currentTime, mounted, offsetMs,
                   remaining, interval, nan, clicks, last, prev>>

\* Math.round((t0 + t1) / 2): a half rounds up.
Midpoint(t0, t1) == (t0 + t1 + 1) \div 2

\* Variant of measuredOffset: the send time is taken for the midpoint.
measuredOffsetFromSend(t0, t1, serverMs) == serverMs - t0

\* serverMs - midpoint
measuredOffset(t0, t1, serverMs) == serverMs - Midpoint(t0, t1)

\* computeOffset, after the response: setOffsetMs(serverMs - midpoint), which
\* is NaN when json.now_ms is undefined.
computeOffsetDone(d) ==
    /\ offsetPc[d].pc \in {"served", "unusable"}
    /\ LET t1 == DateNow(d)
           usable == offsetPc[d].pc = "served"
           off == IF usable
                  THEN setState(d, offsetMs[d],
                           measuredOffset(offsetPc[d].t0, t1,
                                          offsetPc[d].serverMs))
                  ELSE offsetMs[d]
           offNaN == setState(d, OffsetNaN(d), ~usable)
       IN  /\ offsetMs' = [offsetMs EXCEPT ![d] = off]
           /\ Rendered(d, off # offsetMs[d] \/ offNaN # OffsetNaN(d),
                       timer[d], off, offNaN)
    /\ offsetPc' = [offsetPc EXCEPT ![d] = [NoProbe EXCEPT !.pc = "done"]]
    /\ UNCHANGED <<refNow, store, net, notif, skew, timer, loading, error,
                   fetchPc, fetchResp, currentTime, mounted, clicks, last,
                   prev>>

\* The 200 ms interval of the display: setRemaining(computeRemaining()).
IntervalTick(d) ==
    /\ \E i \in 1..Len(interval[d].live) :
          LET cl == interval[d].live[i]
          IN  /\ remaining' = [remaining EXCEPT ![d] =
                      IF projectsNaN(cl.timer, cl.offsetNaN) THEN remaining[d]
                      ELSE setState(d, remaining[d],
                               computeRemaining(cl.timer, cl.offsetMs,
                                                DateNow(d)))]
              /\ nan' = [nan EXCEPT ![d] =
                      setState(d, nan[d],
                          (nan[d] \cap {"offsetMs"}) \cup
                          (NaNCells(cl.timer, cl.offsetNaN) \ {"offsetMs"}))]
    /\ UNCHANGED <<refNow, store, net, notif, skew, timer, loading, error,
                   fetchPc, fetchResp, currentTime, mounted, offsetMs,
                   offsetPc, interval, clicks, last, prev>>

\* The display is closed: the cleanups of its two effects run, the channel is
\* removed and the interval cleared.
Teardown(d) ==
    /\ mounted[d]
    /\ mounted' = [mounted EXCEPT ![d] = FALSE]
    /\ notif' = [notif EXCEPT ![d] = <<>>]
    /\ interval' = [interval EXCEPT ![d] = effectCleanup(interval[d], timer[d])]
    /\ UNCHANGED <<refNow, store, net, skew, timer, loading, error, fetchPc,
                   fetchResp, currentTime, offsetMs, remaining, offsetPc, nan,
                   clicks, last, prev>>

----------------------------------------------------------------------------
(* Time *)

Tick ==
    /\ refNow < Epoch0 + MaxTicks * TickMs
    /\ refNow' = refNow + TickMs
    /\ UNCHANGED <<store, net, notif, skew, timer, loading, error, fetchPc,
                   fetchResp, currentTime, mounted, clicks, last, prev,
                   dvars>>

----------------------------------------------------------------------------
(* The controller protocol: the store and the operator consoles *)

Init ==
    /\ refNow = Epoch0
    /\ store = None
    /\ net = <<>>
    /\ notif = [v \in Viewers |-> <<>>]
    /\ skew \in [Viewers -> Skews]
    /\ \A d \in Displays : skew[d] = 0
    /\ timer = [v \in Viewers |-> None]
    /\ loading = [c \in Consoles |-> TRUE]
    /\ error = [c \in Consoles |-> None]
    /\ mounted = [v \in Viewers |-> v \in Consoles]
    /\ fetchPc = [v \in Viewers |-> IF v \in Consoles THEN "select" ELSE "idle"]
    /\ fetchResp = [v \in Viewers |-> NoResp]
    /\ currentTime = [c \in Consoles |-> Epoch0 + skew[c]]
    /\ offsetMs = [d \in Displays |-> 0]
    /\ remaining = [d \in Displays |-> 0]
    /\ offsetPc = [d \in Displays |-> NoProbe]
    /\ interval = [d \in Displays |-> NoInterval]
    /\ nan = [d \in Displays |-> {}]
    /\ clicks = MaxClicks
    /\ last = NoWrite
    /\ prev = NoWrite

Next ==
    \/ Tick
    \/ \E i \in 1..MaxInFlight : ApplyUpdate(i)
    \/ \E c \in Consoles : ServeSelect(c)
    \/ \E c \in Consoles : ServeInsert(c)
    \/ \E c \in Consoles : fetchTimerSelected(c)
    \/ \E c \in Consoles : fetchTimerInserted(c)
    \/ \E c \in Consoles : Retry(c)
    \/ \E c \in Consoles : OnChange(c)
    \/ \E c \in Consoles : startTimer(c)
    \/ \E c \in Consoles : pauseTimer(c)
    \/ \E c \in Consoles : resetTimer(c)
    \/ \E c \in Consoles, input \in MinutesInputs : updateDuration(c, input)

Spec == Init /\ [][Next]_vars

----------------------------------------------------------------------------
(* The viewers: one operator console and one display screen on the store *)

ViewConsoles == {"c1"}
ViewOpen == ViewConsoles \cup Displays

\* The pages open at Epoch0; the console may issue n update requests.
InitOpen(n) ==
    /\ refNow = Epoch0
    /\ store = None
    /\ net = <<>>
    /\ notif = [v \in Viewers |-> <<>>]
    /\ skew \in [Viewers -> Skews]
    /\ \A v \in Viewers \ ViewOpen : skew[v] = 0
    /\ timer = [v \in Viewers |-> None]
    /\ loading = [c \in Consoles |-> TRUE]
    /\ error = [c \in Consoles |-> None]
    /\ mounted = [v \in Viewers |-> v \in ViewOpen]
    /\ fetchPc = [v \in Viewers |-> IF v \in ViewOpen THEN "select" ELSE "idle"]
    /\ fetchResp = [v \in Viewers |-> NoResp]
    /\ currentTime = [c \in Consoles |-> Epoch0 + skew[c]]
    /\ offsetMs = [d \in Displays |-> 0]
    /\ remaining = [d \in Displays |-> 0]
    /\ offsetPc = [d \in Displays |->
            [pc |-> "sent", t0 |-> Epoch0 + skew[d], serverMs |-> 0]]
    /\ interval = [d \in Displays |-> NoInterval]
    /\ nan = [d \in Displays |-> {}]
    /\ clicks = n
    /\ last = NoWrite
    /\ prev = NoWrite

InitView == InitOpen(MaxViewClicks)

NextView ==
    \/ Tick
    \/ \E i \in 1..MaxInFlight : ApplyUpdate(i)
    \/ \E v \in ViewOpen : ServeSelect(v)
    \/ \E c \in ViewConsoles : ServeInsert(c)
    \/ \E c \in ViewConsoles : fetchTimerSelected(c)
    \/ \E c \in ViewConsoles : fetchTimerInserted(c)
    \/ \E c \in ViewConsoles : OnChange(c)
    \/ \E c \in ViewConsoles : startTimer(c)
    \/ \E c \in ViewConsoles : pauseTimer(c)
    \/ \E c \in ViewConsoles : resetTimer(c)
    \/ \E c \in ViewConsoles, input \in MinutesInputs : updateDuration(c, input)
    \/ \E c \in ViewConsoles : SampleTime(c)
    \/ \E d \in Displays : loadTimerSelected(d)
    \/ \E d \in Displays : OnChangeDisplay(d)
    \/ \E d \in Displays : ServeTime(d)
    \/ \E d \in Displays : computeOffsetDone(d)
    \/ \E d \in Displays : IntervalTick(d)

SpecView == InitView /\ [][NextView]_vars

----------------------------------------------------------------------------
(* The viewers, with the display screen closed at some point *)

\* Update requests the console issues while the display may be closed.
MaxTeardownClicks == 2

InitTeardown == InitOpen(MaxTeardownClicks)

NextTeardown ==
    \/ Tick
    \/ \E i \in 1..MaxInFlight : ApplyUpdate(i)
    \/ \E v \in ViewOpen : ServeSelect(v)
    \/ \E c \in ViewConsoles : ServeInsert(c)
    \/ \E c \in ViewConsoles : fetchTimerSelected(c)
    \/ \E c \in ViewConsoles : fetchTimerInserted(c)
    \/ \E c \in ViewConsoles : OnChange(c)
    \/ \E c \in ViewConsoles : startTimer(c)
    \/ \E c \in ViewConsoles : pauseTimer(c)
    \/ \E c \in ViewConsoles : resetTimer(c)
    \/ \E c \in ViewConsoles, input \in MinutesInputs : updateDuration(c, input)
    \/ \E d \in Displays : loadTimerSelected(d)
    \/ \E d \in Displays : OnChangeDisplay(d)
    \/ \E d \in Displays : ServeTime(d)
    \/ \E d \in Displays : computeOffsetDone(d)
    \/ \E d \in Displays : IntervalTick(d)
    \/ \E d \in Displays : Teardown(d)

SpecTeardown == InitTeardown /\ [][NextTeardown]_vars

----------------------------------------------------------------------------
(* The viewers, with an offset probe that can fail *)

\* Update requests the console issues while the probe may fail.
MaxProbeClicks == 1

InitProbe == InitOpen(MaxProbeClicks)

NextProbe ==
    \/ Tick
    \/ \E i \in 1..MaxInFlight : ApplyUpdate(i)
    \/ \E v \in ViewOpen : ServeSelect(v)
    \/ \E c \in ViewConsoles : ServeInsert(c)
    \/ \E c \in ViewConsoles : fetchTimerSelected(c)
    \/ \E c \in ViewConsoles : fetchTimerInserted(c)
    \/ \E c \in ViewConsoles : OnChange(c)
    \/ \E c \in ViewConsoles : startTimer(c)
    \/ \E d \in Displays : loadTimerSelected(d)
    \/ \E d \in Displays : OnChangeDisplay(d)
    \/ \E d \in Displays : ServeTime(d)
    \/ \E d \in Displays : ServeTimeUnusable(d)
    \/ \E d \in Displays : computeOffsetRejected(d)
    \/ \E d \in Displays : computeOffsetDone(d)
    \/ \E d \in Displays : IntervalTick(d)

SpecProbe == InitProbe /\ [][NextProbe]_vars

----------------------------------------------------------------------------
(* Two operator consoles retargeting the duration at the same time *)

\* Update requests in flight at once when both consoles press Update Duration.
MaxDuelInFlight == 2

\* What each console has typed in its minutes field.
DuelInput == [c \in Consoles |-> IF c = "c1" THEN <<"3">> ELSE <<"7">>]

\* The records the consoles can be looking at: the default one, started at
\* Epoch0, and paused at once.
DuelRecords ==
    { DefaultRow,
      Merge(DefaultRow, startUpdate(DefaultRow, Epoch0)),
      Merge(DefaultRow, [status |-> "paused"]) }

InitDuel ==
    /\ refNow = Epoch0
    /\ store \in {Some(r) : r \in DuelRecords}
    /\ net = <<>>
    /\ notif = [v \in Viewers |-> <<>>]
    /\ skew \in [Viewers -> Skews]
    /\ \A d \in Displays : skew[d] = 0
    /\ timer = [v \in Viewers |-> IF v \in Consoles THEN store ELSE None]
    /\ loading = [c \in Consoles |-> FALSE]
    /\ error = [c \in Consoles |-> None]
    /\ mounted = [v \in Viewers |-> v \in Consoles]
    /\ fetchPc = [v \in Viewers |-> "idle"]
    /\ fetchResp = [v \in Viewers |-> NoResp]
    /\ currentTime = [c \in Consoles |-> Epoch0 + skew[c]]
    /\ offsetMs = [d \in Displays |-> 0]
    /\ remaining = [d \in Displays |-> 0]
    /\ offsetPc = [d \in Displays |-> NoProbe]
    /\ interval = [d \in Displays |-> NoInterval]
    /\ nan = [d \in Displays |-> {}]
    /\ clicks = MaxDuelInFlight
    /\ last = NoWrite
    /\ prev = NoWrite

NextDuel ==
    \/ Tick
    \/ \E i \in 1..MaxDuelInFlight : ApplyUpdate(i)
    \/ \E c \in Consoles : OnChange(c)
    \/ \E c \in Consoles :
            updateDurationWithin(MaxDuelInFlight, c, DuelInput[c])

SpecDuel == InitDuel /\ [][NextDuel]_vars

----------------------------------------------------------------------------
(* Properties of the controller protocol *)

\* C1: in every reachable state the store's record has a non-null start_time
\* if and only if its status is running, whatever the interleaving of the
\* consoles' writes and however stale the caches they were computed from.
C1_StartTimeIffRunning ==
    store # None =>
        ((store[1].start_time # None) <=> (store[1].status = "running"))

\* A pause computed from a stale cache has been applied to a stopped record.
C1_Witness ==
    /\ last.kind = "pause"
    /\ last.pre # None
    /\ last.pre[1].status = "stopped"
    /\ store[1].status = "paused"

\* C2: the stored duration is never negative.
C2_DurationNonNegative == store # None => store[1].duration >= 0

\* C3: a start is applied by the store only when the stored duration is > 0.
C3_StartOnlyWhenPositive ==
    last.kind = "start" => last.pre[1].duration > 0

\* C4: a pause that reaches the store while its record is not running leaves
\* the record as it was.
C4_PauseOnlyWhenRunning ==
    (last.kind = "pause" /\ last.pre[1].status # "running") =>
        store = last.pre

\* C5: a pause of a running record with start_time S and duration D, issued
\* at reference instant R (taken here with S not after R), leaves
\* duration = max(0, D - floor((R - S)/1000)), start_time = null and
\* status = paused, whatever the local clock of the pausing console.
C5_PauseBakesReferenceElapsed ==
    (/\ last.kind = "pause"
     /\ last.pre[1].status = "running"
     /\ getTime(last.pre[1].start_time) <= last.clickAt) =>
        LET D == last.pre[1].duration
            S == getTime(last.pre[1].start_time)
            R == last.clickAt
        IN  /\ store[1].duration = Max(0, D - ((R - S) \div 1000))
            /\ store[1].start_time = None
            /\ store[1].status = "paused"

\* C6: a reset applied to the record in any status leaves status = stopped,
\* start_time = null and the duration it had before the write.
C6_ResetKeepsDuration ==
    last.kind = "reset" =>
        /\ store[1].status = "stopped"
        /\ store[1].start_time = None
        /\ store[1].duration = last.pre[1].duration

\* A reset has been applied to a running record.
C6_Witness ==
    /\ last.kind = "reset"
    /\ last.pre[1].status = "running"
    /\ store[1].status = "stopped"

\* C7: a setDuration with a valid m (an integer >= 0) leaves duration = m*60
\* and status and start_time as they were, in any status; applied to a record
\* that already holds m*60 it leaves the record as it was; 5 gives 300.
C7_SetDurationFrame ==
    (last.kind = "setDuration" /\ parseInt(last.input)[1] >= 0) =>
        LET m == parseInt(last.input)[1]
        IN  /\ store[1].duration = m * 60
            /\ store[1].status = last.pre[1].status
            /\ store[1].start_time = last.pre[1].start_time
            /\ last.pre[1].duration = m * 60 => store = last.pre
            /\ last.input = <<"5">> => store[1].duration = 300

\* setDuration(5) has been applied to a running record.
C7_Witness ==
    /\ last.kind = "setDuration"
    /\ last.input = <<"5">>
    /\ last.pre[1].status = "running"
    /\ store[1].status = "running"
    /\ store[1].duration = 300

\* C8: no setDuration whose input does not parse as an integer >= 0 is ever
\* written to the store (nor, therefore, notified to a display).
C8_InvalidInputRejected ==
    last.kind = "setDuration" =>
        /\ ~isNaN(parseInt(last.input))
        /\ parseInt(last.input)[1] >= 0

\* C11: a start leaves start_time equal to the reference clock's instant at
\* which the operator pressed Start, whatever the skew of that operator's
\* local clock.
C11_StartTimeIsReferenceNow ==
    last.kind = "start" =>
        /\ store[1].status = "running"
        /\ store[1].start_time = toISOString(last.clickAt)


\* The reference instant at which a reference-accurate projector first shows
\* 0 for the running record r.
ZeroInstant(r) == getTime(r.start_time) + Max(0, r.duration) * 1000

\* A pause and then a start have been applied, both pressed at the same
\* reference instant, the pause on a running record.
PausedThenStarted ==
    /\ last.kind = "start"
    /\ prev.kind = "pause"
    /\ prev.pre[1].status = "running"
    /\ last.clickAt = prev.clickAt
    /\ store[1].status = "running"

\* C12: when a pause of a running record is followed at once by a start, the
\* instant at which the projected remaining reaches 0 is less than one second
\* away from the instant at which it would have reached 0 without the pause.
C12_PauseStartKeepsTrajectory ==
    PausedThenStarted =>
        LET after == ZeroInstant(store[1])
            never == ZeroInstant(prev.pre[1])
        IN  /\ computeRemaining(store, 0, after) = 0
            /\ after - never < 1000
            /\ never - after < 1000


\* Two setDuration writes with 3 and 7 minutes have been applied, the second
\* of them already in flight when the store applied the first.
BothApplied ==
    /\ last.kind = "setDuration"
    /\ prev.kind = "setDuration"
    /\ {last.input, prev.input} = {<<"3">>, <<"7">>}
    /\ prev.others = 1

\* C13: once two setDuration writes issued concurrently with 3 and 7 minutes
\* are both applied, in either order, the stored duration is exactly 180 or
\* exactly 420 (that of the write applied last) and status and start_time are
\* as they were before the two writes.
C13_ConcurrentSetDuration ==
    BothApplied =>
        /\ store[1].duration \in {180, 420}
        /\ store[1].duration = parseInt(last.input)[1] * 60
        /\ store[1].status = prev.pre[1].status
        /\ store[1].start_time = prev.pre[1].start_time

\* Both writes are applied to a running record, 7 first and 3 last.
C13_Witness ==
    /\ BothApplied
    /\ prev.pre[1].status = "running"
    /\ last.input = <<"3">>
    /\ store[1].duration = 180
    /\ store[1].status = "running"


\* C14: an absent record is created once with the default values and every
\* console whose first access has finished, also one that found the record
\* absent together with another console, holds the record and shows no error.
C14_CreatedOnceBothLoaded ==
    \A c \in Consoles :
        (mounted[c] /\ fetchPc[c] = "idle" /\ ~loading[c]) =>
            /\ store # None
            /\ last.kind = "insert" => store = Some(DefaultRow)
            /\ error[c] = None
            /\ timer[c] # None
            /\ timer[c][1].id = store[1].id

----------------------------------------------------------------------------
(* Properties of the viewers' projection *)

\* The remaining seconds the specification gives for record r, offset and
\* local instant now.
Projection(r, offset, now) ==
    IF r.status # "running" THEN Max(0, r.duration)
    ELSE Max(0, r.duration - ((now + offset - getTime(r.start_time)) \div 1000))

\* A record with duration 120 started at reference instant at.
Started120(at) ==
    Some([id |-> 1, duration |-> 120, start_time |-> toISOString(at),
          status |-> "running"])

\* C9: the projector of every viewer (computeRemaining of a display with its
\* offset, getRemainingTime of a console, which has no offset) returns an
\* integer >= 0 equal to max(0, duration) when the cached record is not
\* running and to max(0, duration - floor((now + offset - start_time)/1000))
\* when it is; a record with duration 120 started at T projects to 55 at
\* T + 65000 ms and to 0 at T + 130000 ms.
C9_ProjectorFormula ==
    /\ \A c \in Consoles : timer[c] # None =>
            /\ getRemainingTime(timer[c], currentTime[c]) >= 0
            /\ getRemainingTime(timer[c], currentTime[c])
                   = Projection(timer[c][1], 0, currentTime[c])
    /\ \A d \in Displays : timer[d] # None =>
            /\ remaining[d] >= 0
            /\ computeRemaining(timer[d], offsetMs[d], DateNow(d))
                   = Projection(timer[d][1], offsetMs[d], DateNow(d))
    /\ computeRemaining(Started120(Epoch0), 0, Epoch0 + 65000) = 55
    /\ computeRemaining(Started120(Epoch0), 0, Epoch0 + 130000) = 0
    /\ getRemainingTime(Started120(Epoch0), Epoch0 + 65000) = 55
    /\ getRemainingTime(Started120(Epoch0), Epoch0 + 130000) = 0

\* What viewer v shows at this instant for the record it holds.
Shown(v) ==
    IF v \in Consoles THEN getRemainingTime(timer[v], DateNow(v))
    ELSE computeRemaining(timer[v], offsetMs[v], DateNow(v))

\* A display whose probe has measured its skew exactly; a console has no
\* offset to measure.
Calibrated(v) ==
    v \in Displays => (offsetPc[v].pc = "done" /\ offsetMs[v] = 0 - skew[v])

\* C10: at any reference instant all viewers that hold the same record (taken
\* here with a duration >= 0) show the same remaining seconds, whatever the
\* skew of their local clocks.
C10_SameRemainingEverywhere ==
    \A v, w \in Viewers :
        (/\ timer[v] # None
         /\ timer[v] = timer[w]
         /\ timer[v][1].duration >= 0
         /\ Calibrated(v)
         /\ Calibrated(w)) => Shown(v) = Shown(w)

\* Nothing is on its way to viewer v: no write is in flight, no notification
\* is undelivered and its fetch has completed.
Settled(v) ==
    /\ mounted[v]
    /\ net = <<>>
    /\ notif[v] = <<>>
    /\ fetchPc[v] = "idle"

\* C15: viewers converge on the store: once the writes have stopped and
\* nothing is on its way to a viewer any more (taken here after at least one
\* update of the record, so that displays too have been notified of it), the
\* viewer's cached record equals the store's, however its initial fetch
\* interleaved with the notifications.
C15_ViewersConverge ==
    \A v \in Viewers :
        (Settled(v) /\ last.kind \notin {"none", "insert"}) =>
            timer[v] = store

\* C16: once a display is closed none of its callbacks changes its state
\* again: no interval is left running, and no step (a notification, the
\* answer of the fetch or of the offset probe that was in flight) changes its
\* timer, offsetMs or remaining.
C16_NoCallbackAfterTeardown ==
    [][\A d \in Displays :
          ~mounted'[d] =>
              /\ interval'[d].live = <<>>
              /\ notif'[d] = <<>>
              /\ ~mounted[d] =>
                    /\ timer'[d] = timer[d]
                    /\ offsetMs'[d] = offsetMs[d]
                    /\ remaining'[d] = remaining[d]]_vars

\* The display was closed while its fetch and its probe were in flight; both
\* have completed since, and the offset is still 0 although the display's
\* clock is skewed.
C16_Witness ==
    \E d \in Displays :
        /\ ~mounted[d]
        /\ fetchPc[d] = "idle"
        /\ offsetPc[d].pc = "done"
        /\ skew[d] # 0
        /\ offsetMs[d] = 0
        /\ timer[d] = None
        /\ store # None

\* x/2 rounded to the nearest integer, a half going up.
RoundHalf(x) == (x \div 2) + (x % 2)

\* C17: a successful offset measurement with local send time t0, local
\* receive time t1 and reference instant serverMs sets the display's offset
\* to serverMs - round((t0 + t1)/2) and changes nothing else of the display's
\* record, of the store or of what is in flight, whatever offset the display
\* held before; t0 = 1000, t1 = 1200, serverMs = 2150 give 1050.
C17_OffsetFromMidpoint ==
    [][\A d \in Displays :
          (mounted[d] /\ offsetPc[d].pc = "served"
                      /\ offsetPc'[d].pc = "done") =>
              /\ offsetMs'[d] = offsetPc[d].serverMs
                                   - RoundHalf(offsetPc[d].t0 + DateNow(d))
              /\ UNCHANGED <<timer, store, net, notif, fetchPc, fetchResp>>
              /\ measuredOffset(1000, 1200, 2150) = 1050
              /\ measuredOffset(1000, 1201, 2150) = 2150 - RoundHalf(2201)]_vars

\* A measurement whose answer took one step of the clock to come back has
\* set the offset of a display with a skewed clock.
C17_Witness ==
    \E d \in Displays :
        /\ mounted[d]
        /\ offsetPc[d].pc = "done"
        /\ skew[d] # 0
        /\ offsetMs[d] = 0 - skew[d] - TickMs \div 2

\* C18: when the reference-time round trip fails (the request is rejected,
\* is never answered, or is answered without a usable now_ms) the display's
\* offset keeps the value it had, 0 if none was measured; neither the offset
\* nor the remaining value the interval produces is ever NaN.
C18_OffsetSurvivesFailure ==
    \A d \in Displays :
        /\ nan[d] = {}
        /\ offsetPc[d].pc \in {"sent", "unusable", "failed"} => offsetMs[d] = 0

\* C19: a start that reaches the store while its record is already running
\* leaves start_time and duration as they were, also when the console that
\* issued it held a cached status other than running.
C19_StartWhileRunningIsNoOp ==
    (last.kind = "start" /\ last.pre[1].status = "running") =>
        /\ store[1].start_time = last.pre[1].start_time
        /\ store[1].duration = last.pre[1].duration

\* C20: over every step that leaves a viewer's cached record and offset as
\* they are (local clocks never go backwards), the remaining value the viewer
\* produces, by the interval of a display or from the clock sample of a
\* console, does not increase, and once it is 0 it stays 0.
C20_ProjectionNonIncreasing ==
    [][/\ \A d \in Displays :
              (/\ mounted[d]
               /\ timer[d] # None
               /\ timer'[d] = timer[d]
               /\ offsetMs'[d] = offsetMs[d]) =>
                  /\ remaining'[d] <= remaining[d]
                  /\ remaining[d] = 0 => remaining'[d] = 0
       /\ \A c \in Consoles :
              (timer[c] # None /\ timer'[c] = timer[c]) =>
                  /\ getRemainingTime(timer'[c], currentTime'[c])
                         <= getRemainingTime(timer[c], currentTime[c])
                  /\ getRemainingTime(timer[c], currentTime[c]) = 0 =>
                         getRemainingTime(timer'[c], currentTime'[c]) = 0
      ]_vars

\* One second after the start of a record of duration 300 a display that
\* holds it shows 299.
C20_Witness ==
    \E d \in Displays :
        /\ mounted[d]
        /\ timer[d] # None
        /\ timer[d][1].status = "running"
        /\ timer[d][1].duration = 300
        /\ getTime(timer[d][1].start_time) = Epoch0
        /\ DateNow(d) + offsetMs[d] = Epoch0 + 1000
        /\ remaining[d] = 299

\* C21: a pause applied to a running record never increases the stored
\* duration, whatever the local clocks of the console that started the timer
\* and of the console that pauses it.
C21_PauseNeverIncreasesDuration ==
    (last.kind = "pause" /\ last.pre[1].status = "running") =>
        store[1].duration <= last.pre[1].duration

\* C22: a display has at most one interval running at any time, it is the
\* one intervalRef.current refers to, and it projects from the timer and the
\* offsetMs the display holds now: none is left over from a record or an
\* offset that has been replaced.
C22_OneIntervalOnCurrentState ==
    \A d \in Displays :
        /\ Len(interval[d].live) <= 1
        /\ interval[d].ref <=> interval[d].live # <<>>
        /\ \A i \in 1..Len(interval[d].live) :
              interval[d].live[i]
                  = Closure(timer[d], offsetMs[d], OffsetNaN(d))
        /\ (mounted[d] /\ timer[d] # None) => interval[d].live # <<>>

\* A display whose offset has been measured and whose record has been
\* replaced by the notification of a start runs one interval, on the running
\* record and the measured offset.
C22_Witness ==
    \E d \in Displays :
        /\ mounted[d]
        /\ offsetPc[d].pc = "done"
        /\ offsetMs[d] # 0
        /\ last.kind = "start"
        /\ timer[d] = store
        /\ Len(interval[d].live) = 1
        /\ interval[d].live[1].timer[1].status = "running"
        /\ interval[d].live[1].offsetMs = offsetMs[d]

====
